---------------------------- MODULE Spec2Model ----------------------------
(***************************************************************************)
(* Model of the meatly-commerce server handlers over the relational        *)
(* schema (users, products, cart_items, orders, order_items, deliveries).  *)
(*                                                                         *)
(* Every `await db....execute()` of a handler is one atomic database       *)
(* statement; a handler with several statements is a process that can be   *)
(* interleaved with other requests between two statements.  No handler     *)
(* opens a transaction, so a statement that has completed stays applied    *)
(* when a later statement of the same handler rejects.                     *)
(*                                                                         *)
(* Money is held in integer minor units (cents), as the numeric(10,2)      *)
(* columns hold it.  The handlers compute with JavaScript doubles; a       *)
(* double is modelled in units of 1/FloatScale cent, and every floating    *)
(* point operation may be off by one such unit.                            *)
(***************************************************************************)
EXTENDS Integers, Sequences, FiniteSets, TLC

(***************************************************************************)
(* Bounds of the model.                                                    *)
(***************************************************************************)
MaxCartRows   == 2    \* cart_items rows ever inserted (cap of the serial id)
MaxOrders     == 2    \* orders rows ever inserted (cap of the serial id)
MaxDeliveries == 2    \* deliveries rows ever inserted (cap of the serial id)

FloatScale  == 1000   \* double units per cent (resolution of the float model)

Procs      == {1, 2}              \* concurrent multi-statement requests
UserIds    == {1, 2}              \* user ids a request may name; Init has no user 2
ProductIds == {1, 2, 3}           \* product ids a request may name; product 3 never exists
Prices     == {250, 1299}         \* catalog prices in cents (2.50, 12.99)
Quantities == {1, 2}              \* quantities a cart row takes

\* orderStatusEnum
OrderStatuses ==
    {"pending", "confirmed", "preparing", "out_for_delivery", "delivered", "cancelled"}

\* deliveryStatusEnum
DeliveryStatuses == {"pending", "assigned", "picked_up", "in_transit", "delivered"}

VARIABLES
    users,       \* set of existing user ids
    products,    \* [ProductIds -> [price, is_available]]
    cartItems,   \* set of cart_items rows  [id, user_id, product_id, quantity]
    orders,      \* set of orders rows      [id, user_id, total_amount, status]
    orderItems,  \* set of order_items rows [id, order_id, product_id, quantity, unit_price, total_price]
    deliveries,  \* set of deliveries rows  [id, order_id, status,
                 \*   actual_delivery_time, tracking_notes]
    serial,      \* next value of each table's serial id
    pc,          \* per request: the statement it is to execute next
    local,       \* per request: the handler's local variables
    resp         \* the most recent handler return (value or thrown error)

vars == <<users, products, cartItems, orders, orderItems, deliveries, serial, pc, local, resp>>
tables == <<users, products, cartItems, orders, orderItems, deliveries>>

(***************************************************************************)
(* Numbers.  A numeric(10,2) column holds cents.  parseFloat of its text   *)
(* is the nearest double; every double operation rounds to a neighbouring  *)
(* double; storing a double in a numeric(10,2) column rounds it to the     *)
(* nearest cent.                                                           *)
(***************************************************************************)
Drift == -1..1

ParseFloat(cents) == cents * FloatScale

\* the doubles `parseFloat(price) * quantity` can evaluate to
FloatMul(price, quantity) == {ParseFloat(price) * quantity + d : d \in Drift}

\* a double cut off after the second decimal instead of rounded
ToNumericFloor(x) == x \div FloatScale

\* a double written (through toString) into a numeric(10,2) column
ToNumeric(x) == (x + (FloatScale \div 2)) \div FloatScale

\* a column default that skips the first stage of the life cycle
DefaultOrderStatusConfirmed == "confirmed"

\* orders.status: orderStatusEnum('status').notNull().default('pending')
DefaultOrderStatus == "pending"

(***************************************************************************)
(* Rows and queries.                                                       *)
(***************************************************************************)
RECURSIVE SortById(_)
\* the rows of a result set as a sequence, in ascending id (insertion) order
SortById(rows) ==
    IF rows = {} THEN <<>>
    ELSE LET first == CHOOSE r \in rows : \A q \in rows : r.id <= q.id
         IN  <<first>> \o SortById(rows \ {first})

\* cart_items WHERE user_id = u
CartOf(u) == {c \in cartItems : c.user_id = u}

\* the cart select without its where clause: the cart rows of every user
SelectAllCartsWithProducts(u) ==
    LET rows == SortById({c \in cartItems : c.product_id \in DOMAIN products})
    IN  [i \in 1..Len(rows) |->
            [id       |-> rows[i].id,
             quantity |-> rows[i].quantity,
             product  |-> [id    |-> rows[i].product_id,
                           price |-> products[rows[i].product_id].price]]]

\* cart_items INNER JOIN products ON product_id = products.id WHERE user_id = u,
\* selecting the cart row's id and quantity and the product's columns
SelectCartWithProducts(u) ==
    LET rows == SortById({c \in CartOf(u) : c.product_id \in DOMAIN products})
    IN  [i \in 1..Len(rows) |->
            [id       |-> rows[i].id,
             quantity |-> rows[i].quantity,
             product  |-> [id    |-> rows[i].product_id,
                           price |-> products[rows[i].product_id].price]]]

\* order_items WHERE order_id = id
ItemsOf(id) == {it \in orderItems : it.order_id = id}

RECURSIVE ExactFloatTotal(_)
\* the sum of parseFloat(price) * quantity over the items, without rounding error
ExactFloatTotal(cart) ==
    IF cart = <<>> THEN 0
    ELSE ParseFloat(Head(cart).product.price) * Head(cart).quantity
         + ExactFloatTotal(Tail(cart))

\* the doubles the loop `totalAmount += unitPrice * item.quantity` can end with:
\* one multiplication and one addition per item, each off by at most one unit
FloatTotals(cart) ==
    {ExactFloatTotal(cart) + d : d \in (-2 * Len(cart))..(2 * Len(cart))}

(***************************************************************************)
(* Requests.                                                               *)
(***************************************************************************)
LocalInit ==
    [user_id |-> 0, product_id |-> 0, input_quantity |-> 0, quantity |-> 0,
     cartItems |-> <<>>, order |-> 0, existing |-> 0]

\* what a handler returns that is not the order of createOrder
NoOrder == [id |-> 0, status |-> "", total_amount |-> 0]

Return(op, order) == [op |-> op, ok |-> TRUE, err |-> "", order |-> order]

Throw(op, err) == [op |-> op, ok |-> FALSE, err |-> err, order |-> NoOrder]

\* inserts that requests in flight are still to make
OrdersInFlight == Cardinality({q \in Procs : pc[q] = "co_insertOrder"})
CartRowsInFlight ==
    Cardinality({q \in Procs : pc[q] = "atc_write" /\ local[q].existing = 0})

DbFault == "database error"

Init ==
    /\ users = {1}
    /\ products = [i \in {1, 2} |-> [price |-> IF i = 1 THEN 250 ELSE 1299,
                                      is_available |-> TRUE]]
    /\ cartItems = {}
    /\ orders = {}
    /\ orderItems = {}
    /\ deliveries = {}
    /\ serial = [cart |-> 1, order |-> 1, item |-> 1, delivery |-> 1]
    /\ pc = [p \in Procs |-> "idle"]
    /\ local = [p \in Procs |-> LocalInit]
    /\ resp = Throw("", "")

\* The database after some addToCart requests of user 1: up to MaxCartRows cart
\* rows, in insertion order, of the catalog's products.  Two rows may name the
\* same product (cart_items has no unique key on (user_id, product_id)).
InitCheckout ==
    /\ users = {1}
    /\ products = [i \in {1, 2} |-> [price |-> IF i = 1 THEN 250 ELSE 1299,
                                      is_available |-> TRUE]]
    /\ \E n \in 0..MaxCartRows :
          \E f \in [1..n -> [product_id : {1, 2}, quantity : Quantities]] :
             /\ cartItems = {[id |-> i, user_id |-> 1, product_id |-> f[i].product_id,
                              quantity |-> f[i].quantity] : i \in 1..n}
             /\ serial = [cart |-> n + 1, order |-> 1, item |-> 1, delivery |-> 1]
    /\ orders = {}
    /\ orderItems = {}
    /\ deliveries = {}
    /\ pc = [p \in Procs |-> "idle"]
    /\ local = [p \in Procs |-> LocalInit]
    /\ resp = Throw("", "")

\* The database after one addToCart of user 1 for product 1.
InitOneLine ==
    /\ users = {1}
    /\ products = [i \in {1, 2} |-> [price |-> IF i = 1 THEN 250 ELSE 1299,
                                      is_available |-> TRUE]]
    /\ \E q \in Quantities :
          cartItems = {[id |-> 1, user_id |-> 1, product_id |-> 1, quantity |-> q]}
    /\ serial = [cart |-> 2, order |-> 1, item |-> 1, delivery |-> 1]
    /\ orders = {}
    /\ orderItems = {}
    /\ deliveries = {}
    /\ pc = [p \in Procs |-> "idle"]
    /\ local = [p \in Procs |-> LocalInit]
    /\ resp = Throw("", "")

\* The database with two users, each with a cart of one line.
InitTwoUsers ==
    /\ users = {1, 2}
    /\ products = [i \in {1, 2} |-> [price |-> IF i = 1 THEN 250 ELSE 1299,
                                      is_available |-> TRUE]]
    /\ \E q \in Quantities :
          cartItems = {[id |-> 1, user_id |-> 1, product_id |-> 1, quantity |-> q],
                       [id |-> 2, user_id |-> 2, product_id |-> 2, quantity |-> 1]}
    /\ serial = [cart |-> 3, order |-> 1, item |-> 1, delivery |-> 1]
    /\ orders = {}
    /\ orderItems = {}
    /\ deliveries = {}
    /\ pc = [p \in Procs |-> "idle"]
    /\ local = [p \in Procs |-> LocalInit]
    /\ resp = Throw("", "")

\* a request ends: its locals go away and the caller gets `r`
Finish(p, r) ==
    /\ pc' = [pc EXCEPT ![p] = "idle"]
    /\ local' = [local EXCEPT ![p] = LocalInit]
    /\ resp' = r

(***************************************************************************)
(* createOrder                                                             *)
(***************************************************************************)
\* the cart read without the check of cartItems.length
CreateOrderReadNoCheck(p, u) ==
    /\ pc[p] = "idle"
    /\ \/ /\ Finish(p, Throw("createOrder", DbFault))
          /\ UNCHANGED <<tables, serial>>
       \/ /\ serial.order + OrdersInFlight <= MaxOrders
          /\ pc' = [pc EXCEPT ![p] = "co_insertOrder"]
          /\ local' = [local EXCEPT ![p] =
                         [LocalInit EXCEPT !.user_id = u,
                                           !.cartItems = SelectCartWithProducts(u)]]
          /\ UNCHANGED <<tables, serial, resp>>

\* const cartItems = await db.select(...).from(cartItemsTable).innerJoin(...)
\* if (cartItems.length === 0) throw new Error('Cart is empty')
CreateOrderRead(p, u) ==
    /\ pc[p] = "idle"
    /\ \/ /\ Finish(p, Throw("createOrder", DbFault))
          /\ UNCHANGED <<tables, serial>>
       \/ /\ SelectCartWithProducts(u) = <<>>
          /\ Finish(p, Throw("createOrder", "Cart is empty"))
          /\ UNCHANGED <<tables, serial>>
       \/ /\ SelectCartWithProducts(u) # <<>>
          /\ serial.order + OrdersInFlight <= MaxOrders
          /\ pc' = [pc EXCEPT ![p] = "co_insertOrder"]
          /\ local' = [local EXCEPT ![p] =
                         [LocalInit EXCEPT !.user_id = u,
                                           !.cartItems = SelectCartWithProducts(u)]]
          /\ UNCHANGED <<tables, serial, resp>>

\* the order insert behind a guard: refused while another createOrder of the
\* same user has inserted its order and not yet finished
CreateOrderInsertOrderGuarded(p) ==
    /\ pc[p] = "co_insertOrder"
    /\ \/ /\ Finish(p, Throw("createOrder", DbFault))
          /\ UNCHANGED <<tables, serial>>
       \/ /\ \E q \in Procs \ {p} : /\ pc[q] \in {"co_insertItems", "co_deleteCart"}
                                    /\ local[q].user_id = local[p].user_id
          /\ Finish(p, Throw("createOrder", "Order already in progress"))
          /\ UNCHANGED <<tables, serial>>
       \/ /\ ~\E q \in Procs \ {p} : /\ pc[q] \in {"co_insertItems", "co_deleteCart"}
                                     /\ local[q].user_id = local[p].user_id
          /\ local[p].user_id \in users
          /\ orders' \in
                {orders \cup {[id           |-> serial.order,
                               user_id      |-> local[p].user_id,
                               total_amount |-> ToNumeric(totalAmount),
                               status       |-> DefaultOrderStatus]}
                    : totalAmount \in FloatTotals(local[p].cartItems)}
          /\ serial' = [serial EXCEPT !.order = @ + 1]
          /\ pc' = [pc EXCEPT ![p] = "co_insertItems"]
          /\ local' = [local EXCEPT ![p].order = serial.order]
          /\ UNCHANGED <<users, products, cartItems, orderItems, deliveries, resp>>

\* let totalAmount = 0; for (...) totalAmount += unitPrice * item.quantity
\* const orderResult = await db.insert(ordersTable).values({...}).returning()
CreateOrderInsertOrder(p) ==
    /\ pc[p] = "co_insertOrder"
    /\ \/ /\ Finish(p, Throw("createOrder", DbFault))
          /\ UNCHANGED <<tables, serial>>
       \/ /\ local[p].user_id \in users        \* orders.user_id references users.id
          /\ orders' \in
                {orders \cup {[id           |-> serial.order,
                               user_id      |-> local[p].user_id,
                               total_amount |-> ToNumeric(totalAmount),
                               status       |-> DefaultOrderStatus]}
                    : totalAmount \in FloatTotals(local[p].cartItems)}
          /\ serial' = [serial EXCEPT !.order = @ + 1]
          /\ pc' = [pc EXCEPT ![p] = "co_insertItems"]
          /\ local' = [local EXCEPT ![p].order = serial.order]
          /\ UNCHANGED <<users, products, cartItems, orderItems, deliveries, resp>>

RECURSIVE LineTotals(_)
\* the doubles `parseFloat(item.product.price) * item.quantity` can evaluate to,
\* one per cart item
LineTotals(cart) ==
    IF cart = <<>> THEN {<<>>}
    ELSE {<<m>> \o rest : m \in FloatMul(Head(cart).product.price, Head(cart).quantity),
                          rest \in LineTotals(Tail(cart))}

RECURSIVE QuantityOf(_, _)
\* the quantity of a product summed over the lines of a cart
QuantityOf(cart, pr) ==
    IF cart = <<>> THEN 0
    ELSE (IF Head(cart).product.id = pr THEN Head(cart).quantity ELSE 0)
         + QuantityOf(Tail(cart), pr)

RECURSIVE MergedData(_, _, _, _)
\* one row per product from line i on, skipping the products already seen
MergedData(order, cart, i, seen) ==
    IF i > Len(cart) THEN <<>>
    ELSE IF cart[i].product.id \in seen THEN MergedData(order, cart, i + 1, seen)
    ELSE <<[order_id    |-> order,
            product_id  |-> cart[i].product.id,
            quantity    |-> QuantityOf(cart, cart[i].product.id),
            unit_price  |-> cart[i].product.price,
            total_price |-> QuantityOf(cart, cart[i].product.id) * cart[i].product.price]>>
         \o MergedData(order, cart, i + 1, seen \cup {cart[i].product.id})

\* orderItemsData keyed by product: the lines of one product merged into one row
OrderItemsDataMerged(order, cart, lineTotals) == MergedData(order, cart, 1, {})

\* the rows of orderItemsData, given the doubles chosen for the line totals
OrderItemsData(order, cart, lineTotals) ==
    [i \in 1..Len(cart) |->
        [order_id    |-> order,
         product_id  |-> cart[i].product.id,
         quantity    |-> cart[i].quantity,
         unit_price  |-> cart[i].product.price,
         total_price |-> ToNumeric(lineTotals[i])]]

\* the insert that numbers, and so returns, the rows of `data` last to first
InsertedItemsReversed(data, next) ==
    {[id          |-> next + Len(data) - i,
      order_id    |-> data[i].order_id,
      product_id  |-> data[i].product_id,
      quantity    |-> data[i].quantity,
      unit_price  |-> data[i].unit_price,
      total_price |-> data[i].total_price] : i \in 1..Len(data)}

\* the order_items rows an insert of the sequence `data` adds, ids from `next`
InsertedItems(data, next) ==
    {[id          |-> next + i - 1,
      order_id    |-> data[i].order_id,
      product_id  |-> data[i].product_id,
      quantity    |-> data[i].quantity,
      unit_price  |-> data[i].unit_price,
      total_price |-> data[i].total_price] : i \in 1..Len(data)}

\* the items of the OrderWithItems that createOrder returns: the rows the
\* order-items insert returned, in the order of their ids, each with the product
\* of the cart item at the same index
ResultItems(p) ==
    LET orderItemsResult == SortById(ItemsOf(local[p].order))
    IN  [index \in 1..Len(orderItemsResult) |->
            [id          |-> orderItemsResult[index].id,
             order_id    |-> orderItemsResult[index].order_id,
             product_id  |-> orderItemsResult[index].product_id,
             quantity    |-> orderItemsResult[index].quantity,
             unit_price  |-> ParseFloat(orderItemsResult[index].unit_price),
             total_price |-> ParseFloat(orderItemsResult[index].total_price),
             product     |->
                 [id    |-> local[p].cartItems[index].product.id,
                  price |-> ParseFloat(local[p].cartItems[index].product.price)]]]

\* the cart delete moved in front of the order-items insert
CreateOrderDeleteCartFirst(p) ==
    /\ pc[p] = "co_insertItems"
    /\ \/ /\ Finish(p, Throw("createOrder", DbFault))
          /\ UNCHANGED <<tables, serial>>
       \/ /\ cartItems' = cartItems \ CartOf(local[p].user_id)
          /\ orderItems' \in
                {orderItems \cup
                    InsertedItems(OrderItemsData(local[p].order, local[p].cartItems,
                                                 lineTotals), serial.item)
                    : lineTotals \in LineTotals(local[p].cartItems)}
          /\ serial' = [serial EXCEPT !.item = @ + Len(local[p].cartItems)]
          /\ pc' = [pc EXCEPT ![p] = "co_deleteCart"]
          /\ UNCHANGED <<users, products, orders, deliveries, local, resp>>

\* the order-items insert with its error caught and ignored
CreateOrderInsertItemsSwallow(p) ==
    /\ pc[p] = "co_insertItems"
    /\ \/ /\ pc' = [pc EXCEPT ![p] = "co_deleteCart"]
          /\ UNCHANGED <<tables, serial, local, resp>>
       \/ /\ orderItems' \in
                {orderItems \cup
                    InsertedItems(OrderItemsData(local[p].order, local[p].cartItems,
                                                 lineTotals), serial.item)
                    : lineTotals \in LineTotals(local[p].cartItems)}
          /\ serial' = [serial EXCEPT !.item = @ + Len(local[p].cartItems)]
          /\ pc' = [pc EXCEPT ![p] = "co_deleteCart"]
          /\ UNCHANGED <<users, products, cartItems, orders, deliveries, local, resp>>

\* const orderItemsResult = await db.insert(orderItemsTable).values(orderItemsData).returning()
CreateOrderInsertItems(p) ==
    /\ pc[p] = "co_insertItems"
    /\ \/ /\ Finish(p, Throw("createOrder", DbFault))
          /\ UNCHANGED <<tables, serial>>
       \/ /\ orderItems' \in
                {orderItems \cup
                    InsertedItems(OrderItemsData(local[p].order, local[p].cartItems,
                                                 lineTotals), serial.item)
                    : lineTotals \in LineTotals(local[p].cartItems)}
          /\ serial' = [serial EXCEPT !.item = @ + Len(local[p].cartItems)]
          /\ pc' = [pc EXCEPT ![p] = "co_deleteCart"]
          /\ UNCHANGED <<users, products, cartItems, orders, deliveries, local, resp>>

\* the last step with a delete that has no where clause
CreateOrderDeleteAllCarts(p) ==
    /\ pc[p] = "co_deleteCart"
    /\ \/ /\ Finish(p, Throw("createOrder", DbFault))
          /\ UNCHANGED <<tables, serial>>
       \/ /\ cartItems' = {}
          /\ \E o \in orders :
                /\ o.id = local[p].order
                /\ Finish(p, Return("createOrder",
                                    [id |-> o.id, status |-> DefaultOrderStatus,
                                     total_amount |-> ParseFloat(o.total_amount)]))
          /\ UNCHANGED <<users, products, orders, orderItems, deliveries, serial>>

\* the last step without the delete of the cart rows
CreateOrderKeepCart(p) ==
    /\ pc[p] = "co_deleteCart"
    /\ \/ /\ Finish(p, Throw("createOrder", DbFault))
          /\ UNCHANGED <<tables, serial>>
       \/ /\ \E o \in orders :
                /\ o.id = local[p].order
                /\ Finish(p, Return("createOrder",
                                    [id |-> o.id, status |-> DefaultOrderStatus,
                                     total_amount |-> ParseFloat(o.total_amount)]))
          /\ UNCHANGED <<tables, serial>>

\* await db.delete(cartItemsTable).where(eq(cartItemsTable.user_id, input.user_id))
\* return orderWithItems (built from the inserted order row, not re-read)
CreateOrderDeleteCart(p) ==
    /\ pc[p] = "co_deleteCart"
    /\ \/ /\ Finish(p, Throw("createOrder", DbFault))
          /\ UNCHANGED <<tables, serial>>
       \/ /\ cartItems' = cartItems \ CartOf(local[p].user_id)
          /\ \E o \in orders :
                /\ o.id = local[p].order
                /\ Finish(p, Return("createOrder",
                                    [id |-> o.id, status |-> DefaultOrderStatus,
                                     total_amount |-> ParseFloat(o.total_amount)]))
          /\ UNCHANGED <<users, products, orders, orderItems, deliveries, serial>>

CreateOrder(p) ==
    \/ \E u \in UserIds : CreateOrderRead(p, u)
    \/ CreateOrderInsertOrder(p)
    \/ CreateOrderInsertItems(p)
    \/ CreateOrderDeleteCart(p)

(***************************************************************************)
(* The createOrder procedure of the router: the input is parsed by         *)
(* createOrderInputSchema before the handler runs.  A text is a sequence   *)
(* of characters.                                                          *)
(***************************************************************************)
\* delivery addresses and phones a request may carry: empty, blank, and with
\* a visible character
Texts == {<<>>, <<" ">>, <<" ", " ">>, <<"a">>, <<" ", "a", " ">>}

CreateOrderInputs ==
    [user_id : UserIds, delivery_address : Texts, delivery_phone : Texts]

\* z.string().min(1)
StringMin1(text) == Len(text) >= 1

\* createOrderInputSchema: delivery_address and delivery_phone are z.string().min(1)
CreateOrderInputSchema(input) ==
    /\ StringMin1(input.delivery_address)
    /\ StringMin1(input.delivery_phone)

\* createOrder: publicProcedure.input(createOrderInputSchema).mutation(createOrder)
CreateOrderRequest(p, input) ==
    IF CreateOrderInputSchema(input)
    THEN CreateOrderRead(p, input.user_id)
    ELSE /\ pc[p] = "idle"
         /\ Finish(p, Throw("createOrder", "BAD_REQUEST"))
         /\ UNCHANGED <<tables, serial>>

(***************************************************************************)
(* addToCart                                                               *)
(***************************************************************************)
\* the selects without the check of product.is_available
AddToCartCheckAnyProduct(p, u, pr, q) ==
    /\ pc[p] = "idle"
    /\ \/ /\ u \notin users
          /\ Finish(p, Throw("addToCart", "User with ID " \o ToString(u) \o " not found"))
          /\ UNCHANGED <<tables, serial>>
       \/ /\ u \in users
          /\ pr \notin DOMAIN products
          /\ Finish(p, Throw("addToCart", "Product with ID " \o ToString(pr) \o " not found"))
          /\ UNCHANGED <<tables, serial>>
       \/ /\ u \in users
          /\ pr \in DOMAIN products
          /\ LET found == SortById({c \in CartOf(u) : c.product_id = pr})
             IN  IF found # <<>>
                 THEN /\ found[1].quantity + q \in Quantities
                      /\ local' = [local EXCEPT ![p] =
                            [LocalInit EXCEPT !.user_id = u, !.product_id = pr,
                                              !.input_quantity = q,
                                              !.quantity = found[1].quantity + q,
                                              !.existing = found[1].id]]
                 ELSE /\ serial.cart + CartRowsInFlight <= MaxCartRows
                      /\ local' = [local EXCEPT ![p] =
                            [LocalInit EXCEPT !.user_id = u, !.product_id = pr,
                                              !.input_quantity = q,
                                              !.quantity = q]]
          /\ pc' = [pc EXCEPT ![p] = "atc_write"]
          /\ UNCHANGED <<tables, serial, resp>>

\* the three selects: user exists, product exists and is available, existing
\* cart row of (user_id, product_id) LIMIT 1; newQuantity is computed from the
\* row as read here
AddToCartCheck(p, u, pr, q) ==
    /\ pc[p] = "idle"
    /\ \/ /\ u \notin users
          /\ Finish(p, Throw("addToCart", "User with ID " \o ToString(u) \o " not found"))
          /\ UNCHANGED <<tables, serial>>
       \/ /\ u \in users
          /\ pr \notin DOMAIN products
          /\ Finish(p, Throw("addToCart", "Product with ID " \o ToString(pr) \o " not found"))
          /\ UNCHANGED <<tables, serial>>
       \/ /\ u \in users
          /\ pr \in DOMAIN products
          /\ ~products[pr].is_available
          /\ Finish(p, Throw("addToCart", "Product with ID " \o ToString(pr) \o " is not available"))
          /\ UNCHANGED <<tables, serial>>
       \/ /\ u \in users
          /\ pr \in DOMAIN products
          /\ products[pr].is_available
          /\ LET found == SortById({c \in CartOf(u) : c.product_id = pr})
             IN  IF found # <<>>
                 THEN /\ found[1].quantity + q \in Quantities
                      /\ local' = [local EXCEPT ![p] =
                            [LocalInit EXCEPT !.user_id = u, !.product_id = pr,
                                              !.input_quantity = q,
                                              !.quantity = found[1].quantity + q,
                                              !.existing = found[1].id]]
                 ELSE /\ serial.cart + CartRowsInFlight <= MaxCartRows
                      /\ local' = [local EXCEPT ![p] =
                            [LocalInit EXCEPT !.user_id = u, !.product_id = pr,
                                              !.input_quantity = q,
                                              !.quantity = q]]
          /\ pc' = [pc EXCEPT ![p] = "atc_write"]
          /\ UNCHANGED <<tables, serial, resp>>

\* existingCartItem.length > 0: update ... set quantity = newQuantity where id = existing id
\* else: insert (user_id, product_id, quantity)
AddToCartWrite(p) ==
    /\ pc[p] = "atc_write"
    /\ \/ /\ Finish(p, Throw("addToCart", DbFault))
          /\ UNCHANGED <<tables, serial>>
       \/ /\ local[p].existing # 0
          /\ cartItems' = {IF c.id = local[p].existing
                           THEN [c EXCEPT !.quantity = local[p].quantity]
                           ELSE c : c \in cartItems}
          /\ Finish(p, Return("addToCart", NoOrder))
          /\ UNCHANGED <<users, products, orders, orderItems, deliveries, serial>>
       \/ /\ local[p].existing = 0
          /\ cartItems' = cartItems \cup
                {[id |-> serial.cart, user_id |-> local[p].user_id,
                  product_id |-> local[p].product_id, quantity |-> local[p].quantity]}
          /\ serial' = [serial EXCEPT !.cart = @ + 1]
          /\ Finish(p, Return("addToCart", NoOrder))
          /\ UNCHANGED <<users, products, orders, orderItems, deliveries>>

AddToCart(p) ==
    \/ \E u \in UserIds, pr \in ProductIds, q \in Quantities : AddToCartCheck(p, u, pr, q)
    \/ AddToCartWrite(p)

(***************************************************************************)
(* Single-statement handlers.                                              *)
(***************************************************************************)
\* ids a request may name: those handed out so far and the next one (no row yet)
CartIds == 1..serial.cart
OrderIds == 1..serial.order
DeliveryIds == 1..serial.delivery

\* the update without its where clause: every cart row gets the quantity
UpdateCartItemAllRows(id, q) ==
    /\ IF \E c \in cartItems : c.id = id
       THEN /\ cartItems' = {[c EXCEPT !.quantity = q] : c \in cartItems}
            /\ resp' = Return("updateCartItem", NoOrder)
       ELSE /\ cartItems' = cartItems
            /\ resp' = Throw("updateCartItem",
                              "Cart item with id " \o ToString(id) \o " not found")
    /\ UNCHANGED <<users, products, orders, orderItems, deliveries, serial, pc, local>>

\* update cart_items set quantity = input.quantity where id = input.id returning
UpdateCartItem(id, q) ==
    /\ IF \E c \in cartItems : c.id = id
       THEN /\ cartItems' = {IF c.id = id THEN [c EXCEPT !.quantity = q] ELSE c
                                : c \in cartItems}
            /\ resp' = Return("updateCartItem", NoOrder)
       ELSE /\ cartItems' = cartItems
            /\ resp' = Throw("updateCartItem",
                              "Cart item with id " \o ToString(id) \o " not found")
    /\ UNCHANGED <<users, products, orders, orderItems, deliveries, serial, pc, local>>

\* the delete that reports a missing row as an error
RemoveFromCartStrict(id) ==
    /\ IF \E c \in cartItems : c.id = id
       THEN /\ cartItems' = {c \in cartItems : c.id # id}
            /\ resp' = Return("removeFromCart", NoOrder)
       ELSE /\ cartItems' = cartItems
            /\ resp' = Throw("removeFromCart",
                              "Cart item with id " \o ToString(id) \o " not found")
    /\ UNCHANGED <<users, products, orders, orderItems, deliveries, serial, pc, local>>

\* delete from cart_items where id = input.id; return { success: true }
RemoveFromCart(id) ==
    /\ cartItems' = {c \in cartItems : c.id # id}
    /\ resp' = Return("removeFromCart", NoOrder)
    /\ UNCHANGED <<users, products, orders, orderItems, deliveries, serial, pc, local>>

\* the delete without its where clause: the carts of all users are emptied
ClearCartOfEveryone(u) ==
    /\ cartItems' = {}
    /\ resp' = Return("clearCart", NoOrder)
    /\ UNCHANGED <<users, products, orders, orderItems, deliveries, serial, pc, local>>

\* delete from cart_items where user_id = input.user_id; return { success: true }
ClearCart(u) ==
    /\ cartItems' = cartItems \ CartOf(u)
    /\ resp' = Return("clearCart", NoOrder)
    /\ UNCHANGED <<users, products, orders, orderItems, deliveries, serial, pc, local>>

\* update products set <the provided fields> where id = input.id
UpdateProduct(id, setPrice, price, setAvailable, available) ==
    /\ IF id \in DOMAIN products
       THEN /\ products' = [products EXCEPT
                  ![id] = [price        |-> IF setPrice THEN price ELSE @.price,
                           is_available |-> IF setAvailable THEN available
                                            ELSE @.is_available]]
            /\ resp' = Return("updateProduct", NoOrder)
       ELSE /\ products' = products
            /\ resp' = Throw("updateProduct",
                              "Product with id " \o ToString(id) \o " not found")
    /\ UNCHANGED <<users, cartItems, orders, orderItems, deliveries, serial, pc, local>>

\* the status update that answers with an order built from its input and never
\* looks the order up
UpdateOrderStatusPlaceholder(id, status) ==
    /\ orders' = orders
    /\ resp' = Return("updateOrderStatus",
                      [id |-> id, status |-> status, total_amount |-> 0])
    /\ UNCHANGED <<users, products, cartItems, orderItems, deliveries, serial, pc, local>>

\* the status update without its where clause: every order gets the status
UpdateOrderStatusOfAll(id, status) ==
    /\ IF \E o \in orders : o.id = id
       THEN /\ orders' = {[o EXCEPT !.status = status] : o \in orders}
            /\ \E o \in orders :
                  /\ o.id = id
                  /\ resp' = Return("updateOrderStatus",
                                    [id |-> o.id, status |-> status,
                                     total_amount |-> ParseFloat(o.total_amount)])
       ELSE /\ orders' = orders
            /\ resp' = Throw("updateOrderStatus",
                              "Order with id " \o ToString(id) \o " not found")
    /\ UNCHANGED <<users, products, cartItems, orderItems, deliveries, serial, pc, local>>

\* the status update behind a check of the life cycle's transitions
UpdateOrderStatusChecked(id, status) ==
    /\ IF \E o \in orders : o.id = id
       THEN IF \E o \in orders :
                  /\ o.id = id
                  /\ <<o.status, status>> \in
                        {<<"pending", "confirmed">>, <<"confirmed", "preparing">>,
                         <<"preparing", "out_for_delivery">>,
                         <<"out_for_delivery", "delivered">>,
                         <<"pending", "cancelled">>, <<"confirmed", "cancelled">>}
            THEN /\ orders' = {IF o.id = id THEN [o EXCEPT !.status = status] ELSE o
                                  : o \in orders}
                 /\ \E o \in orders :
                       /\ o.id = id
                       /\ resp' = Return("updateOrderStatus",
                                         [id |-> o.id, status |-> status,
                                          total_amount |-> ParseFloat(o.total_amount)])
            ELSE /\ orders' = orders
                 /\ resp' = Throw("updateOrderStatus", "Invalid status transition")
       ELSE /\ orders' = orders
            /\ resp' = Throw("updateOrderStatus",
                              "Order with id " \o ToString(id) \o " not found")
    /\ UNCHANGED <<users, products, cartItems, orderItems, deliveries, serial, pc, local>>

\* update orders set status = input.status where id = input.id returning
UpdateOrderStatus(id, status) ==
    /\ IF \E o \in orders : o.id = id
       THEN /\ orders' = {IF o.id = id THEN [o EXCEPT !.status = status] ELSE o
                             : o \in orders}
            /\ \E o \in orders :
                  /\ o.id = id
                  /\ resp' = Return("updateOrderStatus",
                                    [id |-> o.id, status |-> status,
                                     total_amount |-> ParseFloat(o.total_amount)])
       ELSE /\ orders' = orders
            /\ resp' = Throw("updateOrderStatus",
                              "Order with id " \o ToString(id) \o " not found")
    /\ UNCHANGED <<users, products, cartItems, orderItems, deliveries, serial, pc, local>>

\* a column that is NULL, and an optional field the input leaves out
Null      == "null"
Undefined == "undefined"

\* an updateDelivery input that provides no field
NoFields ==
    [id |-> 0, status |-> Undefined, actual_delivery_time |-> Undefined,
     tracking_notes |-> Undefined]

\* the insert without the select of the order before it
CreateDeliveryUnchecked(order_id) ==
    /\ serial.delivery <= MaxDeliveries
    /\ deliveries' = deliveries \cup
          {[id |-> serial.delivery, order_id |-> order_id, status |-> "pending",
            actual_delivery_time |-> Null, tracking_notes |-> Null]}
    /\ serial' = [serial EXCEPT !.delivery = @ + 1]
    /\ resp' = Return("createDelivery", NoOrder)
    /\ UNCHANGED <<users, products, cartItems, orders, orderItems, pc, local>>

\* select from orders where id = input.order_id; insert into deliveries
CreateDelivery(order_id) ==
    /\ IF \E o \in orders : o.id = order_id
       THEN /\ serial.delivery <= MaxDeliveries
            /\ deliveries' = deliveries \cup
                  {[id |-> serial.delivery, order_id |-> order_id, status |-> "pending",
                    actual_delivery_time |-> Null, tracking_notes |-> Null]}
            /\ serial' = [serial EXCEPT !.delivery = @ + 1]
            /\ resp' = Return("createDelivery", NoOrder)
       ELSE /\ UNCHANGED <<deliveries, serial>>
            /\ resp' = Throw("createDelivery",
                              "Order with id " \o ToString(order_id) \o " does not exist")
    /\ UNCHANGED <<users, products, cartItems, orders, orderItems, pc, local>>

\* the update behind a check that a provided status is the next stage
UpdateDeliveryForward(input) ==
    /\ IF \E d \in deliveries : d.id = input.id
       THEN IF \E d \in deliveries :
                  /\ d.id = input.id
                  /\ \/ input.status = Undefined
                     \/ <<d.status, input.status>> \in
                           {<<"pending", "assigned">>, <<"assigned", "picked_up">>,
                            <<"picked_up", "in_transit">>, <<"in_transit", "delivered">>}
            THEN /\ deliveries' =
                       {IF d.id = input.id
                        THEN [d EXCEPT
                                !.status = IF input.status # Undefined
                                           THEN input.status ELSE @,
                                !.actual_delivery_time =
                                           IF input.actual_delivery_time # Undefined
                                           THEN input.actual_delivery_time ELSE @,
                                !.tracking_notes = IF input.tracking_notes # Undefined
                                                   THEN input.tracking_notes ELSE @]
                        ELSE d : d \in deliveries}
                 /\ resp' = Return("updateDelivery", NoOrder)
            ELSE /\ deliveries' = deliveries
                 /\ resp' = Throw("updateDelivery", "Invalid status transition")
       ELSE /\ deliveries' = deliveries
            /\ resp' = Throw("updateDelivery",
                              "Delivery with id " \o ToString(input.id) \o " not found")
    /\ UNCHANGED <<users, products, cartItems, orders, orderItems, serial, pc, local>>

\* update deliveries set <the provided fields> where id = input.id returning;
\* a field of the input that is undefined is left out of the set list
UpdateDelivery(input) ==
    /\ IF \E d \in deliveries : d.id = input.id
       THEN /\ deliveries' =
                  {IF d.id = input.id
                   THEN [d EXCEPT
                           !.status = IF input.status # Undefined
                                      THEN input.status ELSE @,
                           !.actual_delivery_time =
                                      IF input.actual_delivery_time # Undefined
                                      THEN input.actual_delivery_time ELSE @,
                           !.tracking_notes = IF input.tracking_notes # Undefined
                                              THEN input.tracking_notes ELSE @]
                   ELSE d : d \in deliveries}
            /\ resp' = Return("updateDelivery", NoOrder)
       ELSE /\ deliveries' = deliveries
            /\ resp' = Throw("updateDelivery",
                              "Delivery with id " \o ToString(input.id) \o " not found")
    /\ UNCHANGED <<users, products, cartItems, orders, orderItems, serial, pc, local>>

(***************************************************************************)
(* Read-only handlers (no statement of theirs writes).                     *)
(***************************************************************************)
\* the items of an order priced from the joined product row instead of the
\* order_items row
ItemsWithProductsLive(id) ==
    {[id          |-> it.id,
      order_id    |-> it.order_id,
      product_id  |-> it.product_id,
      quantity    |-> it.quantity,
      unit_price  |-> ParseFloat(products[it.product_id].price),
      total_price |-> ParseFloat(products[it.product_id].price) * it.quantity,
      product     |-> [id    |-> it.product_id,
                       price |-> ParseFloat(products[it.product_id].price)]]
        : it \in {i \in ItemsOf(id) : i.product_id \in DOMAIN products}}

\* order_items INNER JOIN products WHERE order_id = id, mapped to the items of
\* an OrderWithItems
ItemsWithProducts(id) ==
    {[id          |-> it.id,
      order_id    |-> it.order_id,
      product_id  |-> it.product_id,
      quantity    |-> it.quantity,
      unit_price  |-> ParseFloat(it.unit_price),
      total_price |-> ParseFloat(it.total_price),
      product     |-> [id    |-> it.product_id,
                       price |-> ParseFloat(products[it.product_id].price)]]
        : it \in {i \in ItemsOf(id) : i.product_id \in DOMAIN products}}

\* getOrder: the orders with that id (none: null), each with its items
GetOrder(id) ==
    {[id |-> o.id, user_id |-> o.user_id, total_amount |-> ParseFloat(o.total_amount),
      status |-> o.status, items |-> ItemsWithProducts(o.id)]
        : o \in {x \in orders : x.id = id}}

\* getUserOrders: the orders of the user, each with its items
GetUserOrders(u) ==
    {[id |-> o.id, user_id |-> o.user_id, total_amount |-> ParseFloat(o.total_amount),
      status |-> o.status, items |-> ItemsWithProducts(o.id)]
        : o \in {x \in orders : x.user_id = u}}

(***************************************************************************)
(* Queries of the router: one select each, answered from the rows read.    *)
(***************************************************************************)
\* products.category, a column that no request of the model changes
CategoryOf(id) == IF id = 1 THEN "chicken" ELSE "fish"

\* the answer of a query: the input it was asked with and the rows it returns
ReturnRows(op, input, rows) ==
    [op |-> op, ok |-> TRUE, err |-> "", order |-> NoOrder,
     input |-> input, rows |-> rows]

\* select from users where id = id; null when there is none
GetUser(id) ==
    /\ resp' = ReturnRows("getUser", id, {u \in users : u = id})
    /\ UNCHANGED <<tables, serial, pc, local>>

\* select from products where category = input.category, prices parsed
GetProductsByCategory(category) ==
    /\ resp' = ReturnRows("getProductsByCategory", category,
                  {[id |-> i, category |-> CategoryOf(i),
                    price |-> ParseFloat(products[i].price),
                    is_available |-> products[i].is_available]
                      : i \in {j \in DOMAIN products : CategoryOf(j) = category}})
    /\ UNCHANGED <<tables, serial, pc, local>>

\* the getUserCart that takes the rows it returns out of the cart
GetUserCartTaking(u) ==
    /\ resp' = ReturnRows("getUserCart", u,
                  LET rows == SortById({c \in CartOf(u) : c.product_id \in DOMAIN products})
                  IN  [i \in 1..Len(rows) |->
                          [id |-> rows[i].id, user_id |-> rows[i].user_id,
                           product_id |-> rows[i].product_id,
                           quantity |-> rows[i].quantity,
                           product |-> [id |-> rows[i].product_id,
                                        price |-> ParseFloat(products[rows[i].product_id].price),
                                        is_available |->
                                            products[rows[i].product_id].is_available]]])
    /\ cartItems' = cartItems \ CartOf(u)
    /\ UNCHANGED <<users, products, orders, orderItems, deliveries, serial, pc, local>>

\* cart_items INNER JOIN products WHERE user_id = input.user_id, each row with
\* its product and the product's price parsed
GetUserCart(u) ==
    /\ resp' = ReturnRows("getUserCart", u,
                  LET rows == SortById({c \in CartOf(u) : c.product_id \in DOMAIN products})
                  IN  [i \in 1..Len(rows) |->
                          [id |-> rows[i].id, user_id |-> rows[i].user_id,
                           product_id |-> rows[i].product_id,
                           quantity |-> rows[i].quantity,
                           product |-> [id |-> rows[i].product_id,
                                        price |-> ParseFloat(products[rows[i].product_id].price),
                                        is_available |->
                                            products[rows[i].product_id].is_available]]])
    /\ UNCHANGED <<tables, serial, pc, local>>

\* the getOrder query of the router
GetOrderQuery(id) ==
    /\ resp' = ReturnRows("getOrder", id, GetOrder(id))
    /\ UNCHANGED <<tables, serial, pc, local>>

\* the getUserOrders query of the router
GetUserOrdersQuery(u) ==
    /\ resp' = ReturnRows("getUserOrders", u, GetUserOrders(u))
    /\ UNCHANGED <<tables, serial, pc, local>>

\* select from deliveries where order_id = input.order_id; the first row of the
\* result, rows coming in the order of their insertion, or null
GetDeliveryByOrder(order_id) ==
    /\ resp' = ReturnRows("getDeliveryByOrder", order_id,
                  LET result == SortById({d \in deliveries : d.order_id = order_id})
                  IN  IF Len(result) = 0 THEN {} ELSE {result[1]})
    /\ UNCHANGED <<tables, serial, pc, local>>

(***************************************************************************)
(* Specifications.  Each one is the server restricted to the requests of   *)
(* one scenario; all of them take their steps from the handlers above.     *)
(***************************************************************************)
\* one customer checks out a cart while the catalog price of product 1 changes
NextCheckout ==
    \/ \E u \in UserIds : CreateOrderRead(1, u)
    \/ CreateOrderInsertOrder(1)
    \/ CreateOrderInsertItems(1)
    \/ CreateOrderDeleteCart(1)
    \/ \E price \in Prices : UpdateProduct(1, TRUE, price, FALSE, FALSE)

SpecCheckout == InitCheckout /\ [][NextCheckout]_vars

\* one customer calls createOrder again and again, and nothing else happens
NextRetry ==
    \/ CreateOrderRead(1, 1)
    \/ CreateOrderInsertOrder(1)
    \/ CreateOrderInsertItems(1)
    \/ CreateOrderDeleteCart(1)

SpecRetry == InitCheckout /\ [][NextRetry]_vars

\* checkouts of any cart, and orders set to delivered or cancelled meanwhile
NextStatus ==
    \/ \E u \in UserIds : CreateOrderRead(1, u)
    \/ CreateOrderInsertOrder(1)
    \/ CreateOrderInsertItems(1)
    \/ CreateOrderDeleteCart(1)
    \/ \E id \in OrderIds, s \in {"delivered", "cancelled"} : UpdateOrderStatus(id, s)

SpecStatus == InitCheckout /\ [][NextStatus]_vars

\* checkouts of a cart of one line, and every status update of the orders
NextLifecycle ==
    \/ \E u \in UserIds : CreateOrderRead(1, u)
    \/ CreateOrderInsertOrder(1)
    \/ CreateOrderInsertItems(1)
    \/ CreateOrderDeleteCart(1)
    \/ \E id \in OrderIds, s \in OrderStatuses : UpdateOrderStatus(id, s)

SpecLifecycle == InitOneLine /\ [][NextLifecycle]_vars

\* checkouts of two users, with status updates and a first delivery of one of
\* their orders
NextFrame ==
    \/ \E u \in UserIds : CreateOrderRead(1, u)
    \/ CreateOrderInsertOrder(1)
    \/ CreateOrderInsertItems(1)
    \/ CreateOrderDeleteCart(1)
    \/ \E id \in OrderIds : UpdateOrderStatus(id, "confirmed")
    \/ \E id \in OrderIds : deliveries = {} /\ CreateDelivery(id)

SpecFrame == InitTwoUsers /\ [][NextFrame]_vars

\* createOrder requests of one customer as the router receives them
NextRequest ==
    \/ \E input \in CreateOrderInputs : CreateOrderRequest(1, input)
    \/ CreateOrderInsertOrder(1)
    \/ CreateOrderInsertItems(1)
    \/ CreateOrderDeleteCart(1)

SpecRequest == InitCheckout /\ [][NextRequest]_vars

\* one customer submits the checkout twice: two createOrder requests overlap
NextDoubleSubmit ==
    \/ \E p \in Procs : CreateOrderRead(p, 1)
    \/ \E p \in Procs : CreateOrderInsertOrder(p)
    \/ \E p \in Procs : CreateOrderInsertItems(p)
    \/ \E p \in Procs : CreateOrderDeleteCart(p)

SpecDoubleSubmit == InitCheckout /\ [][NextDoubleSubmit]_vars

\* addToCart requests only, two of them at a time, from the empty database
NextAddToCart ==
    \/ \E p \in Procs, u \in UserIds, pr \in ProductIds, q \in Quantities :
          AddToCartCheck(p, u, pr, q)
    \/ \E p \in Procs : AddToCartWrite(p)

SpecAddToCart == Init /\ [][NextAddToCart]_vars

\* addToCart requests while product 1 is taken off sale and put back
NextAvailability ==
    \/ \E u \in UserIds, pr \in ProductIds : AddToCartCheck(1, u, pr, 1)
    \/ AddToCartWrite(1)
    \/ \E available \in BOOLEAN : UpdateProduct(1, FALSE, 250, TRUE, available)
    \/ \E id \in CartIds : RemoveFromCart(id)

SpecAvailability == Init /\ [][NextAvailability]_vars

\* user 1 fills the cart and edits and removes its rows
NextCartEdit ==
    \/ \E pr \in ProductIds : AddToCartCheck(1, 1, pr, 1)
    \/ AddToCartWrite(1)
    \/ \E id \in CartIds, q \in Quantities : UpdateCartItem(id, q)
    \/ \E id \in CartIds : RemoveFromCart(id)

SpecCartEdit == Init /\ [][NextCartEdit]_vars

\* users 1 and 2 with one cart row each: rows are edited, added to and the cart
\* of user 1, user 2 or the unknown user 3 is cleared
NextClearCart ==
    \/ \E u \in UserIds, pr \in ProductIds : AddToCartCheck(1, u, pr, 1)
    \/ AddToCartWrite(1)
    \/ \E id \in CartIds, q \in Quantities : UpdateCartItem(id, q)
    \/ \E u \in UserIds \cup {3} : ClearCart(u)

SpecClearCart == InitTwoUsers /\ [][NextClearCart]_vars

\* updateDelivery inputs of an operator: the delivery is reported delivered with
\* its time, or a tracking note is written
UpdateDeliveryInputs ==
    {[NoFields EXCEPT !.id = id, !.status = "delivered",
                      !.actual_delivery_time = "noon"] : id \in DeliveryIds}
    \cup {[NoFields EXCEPT !.id = id, !.tracking_notes = "left at the door"]
             : id \in DeliveryIds}

\* a customer checks out and an operator creates and updates deliveries
NextDelivery ==
    \/ CreateOrderRead(1, 1)
    \/ CreateOrderInsertOrder(1)
    \/ CreateOrderInsertItems(1)
    \/ CreateOrderDeleteCart(1)
    \/ \E id \in OrderIds : CreateDelivery(id)
    \/ \E input \in UpdateDeliveryInputs : UpdateDelivery(input)

SpecDelivery == InitOneLine /\ [][NextDelivery]_vars

\* updateDelivery inputs of a courier: a status, or a tracking note only
TrackingInputs ==
    {[NoFields EXCEPT !.id = id, !.status = s] : id \in DeliveryIds, s \in DeliveryStatuses}
    \cup {[NoFields EXCEPT !.id = id, !.tracking_notes = "left at the door"]
             : id \in DeliveryIds}

\* a customer checks out, an operator creates the delivery of the order and a
\* courier reports its progress
NextTracking ==
    \/ CreateOrderRead(1, 1)
    \/ CreateOrderInsertOrder(1)
    \/ CreateOrderInsertItems(1)
    \/ CreateOrderDeleteCart(1)
    \/ \E id \in OrderIds : deliveries = {} /\ CreateDelivery(id)
    \/ \E input \in TrackingInputs : UpdateDelivery(input)

SpecTracking == InitOneLine /\ [][NextTracking]_vars

\* a customer checks out, the catalog price and the cart change, deliveries
\* are created, and every query of the router is asked in between
NextQueries ==
    \/ CreateOrderRead(1, 1)
    \/ CreateOrderInsertOrder(1)
    \/ CreateOrderInsertItems(1)
    \/ CreateOrderDeleteCart(1)
    \/ \E id \in CartIds : UpdateCartItem(id, 2)
    \/ UpdateProduct(1, TRUE, 1299, FALSE, FALSE)
    \/ \E id \in OrderIds : CreateDelivery(id)
    \/ \E id \in UserIds : GetUser(id)
    \/ \E category \in {"chicken", "fish"} : GetProductsByCategory(category)
    \/ GetUserCart(1)
    \/ GetOrderQuery(1)
    \/ GetUserOrdersQuery(1)
    \/ GetDeliveryByOrder(1)

SpecQueries == InitOneLine /\ [][NextQueries]_vars

\* a customer checks out in one tab while adding to and editing the same cart
\* in another
NextCartRace ==
    \/ CreateOrderRead(1, 1)
    \/ CreateOrderInsertOrder(1)
    \/ CreateOrderInsertItems(1)
    \/ CreateOrderDeleteCart(1)
    \/ \E pr \in ProductIds : AddToCartCheck(2, 1, pr, 1)
    \/ AddToCartWrite(2)
    \/ \E id \in CartIds, q \in Quantities : UpdateCartItem(id, q)

SpecCartRace == InitOneLine /\ [][NextCartRace]_vars

\* every handler, from the empty database, one request at a time on product 1
\* and one delivery
Next ==
    \/ \E u \in UserIds : CreateOrderRead(1, u)
    \/ CreateOrderInsertOrder(1)
    \/ CreateOrderInsertItems(1)
    \/ CreateOrderDeleteCart(1)
    \/ \E a \in {<<2, 1>>, <<1, 3>>, <<1, 1>>} : AddToCartCheck(1, a[1], a[2], 1)
    \/ AddToCartWrite(1)
    \/ \E id \in CartIds : UpdateCartItem(id, 2)
    \/ \E id \in CartIds : RemoveFromCart(id)
    \/ ClearCart(1)
    \/ \E id \in {1, 3} : UpdateProduct(id, TRUE, 1299, TRUE, FALSE)
    \/ \E id \in OrderIds : UpdateOrderStatus(id, "cancelled")
    \/ \E id \in OrderIds : deliveries = {} /\ CreateDelivery(id)
    \/ \E id \in DeliveryIds : UpdateDelivery([NoFields EXCEPT !.id = id, !.status = "assigned"])

Spec == Init /\ [][Next]_vars

(***************************************************************************)
(* Properties of createOrder.                                              *)
(***************************************************************************)
CreateOrderStates == {"co_insertOrder", "co_insertItems", "co_deleteCart"}

\* <<id, quantity>> of the cart rows a createOrder request has read
SnapshotRows(p) ==
    {<<local[p].cartItems[i].id, local[p].cartItems[i].quantity>>
        : i \in DOMAIN local[p].cartItems}

RECURSIVE SnapshotCents(_)
\* the sum of quantity * unit price over the lines read, in cents
SnapshotCents(cart) ==
    IF cart = <<>> THEN 0
    ELSE Head(cart).quantity * Head(cart).product.price + SnapshotCents(Tail(cart))

RECURSIVE CartCents(_)
\* the sum of quantity * current catalog price over a set of cart rows, in cents
CartCents(rows) ==
    IF rows = {} THEN 0
    ELSE LET c == CHOOSE x \in rows : TRUE
         IN  c.quantity * products[c.product_id].price + CartCents(rows \ {c})

RECURSIVE ItemCents(_)
\* the sum of total_price over a set of order_items rows, in cents
ItemCents(items) ==
    IF items = {} THEN 0
    ELSE LET it == CHOOSE x \in items : TRUE
         IN  it.total_price + ItemCents(items \ {it})

\* C1: createOrder is all-or-nothing: when a step after the cart read fails,
\* the state holds no order row and no order-item row of the failed call, and
\* the owner's cart is exactly as the call read it.
C1_AllOrNothing ==
    [][\A p \in Procs :
          (pc[p] \in CreateOrderStates /\ pc'[p] = "idle" /\ ~resp'.ok)
          => /\ \A o \in orders' : o.id # local[p].order
             /\ \A it \in orderItems' : it.order_id # local[p].order
             /\ {<<c.id, c.quantity>>
                    : c \in {x \in cartItems' : x.user_id = local[p].user_id}}
                = SnapshotRows(p)]_vars

\* C2: createOrder deletes the owner's cart rows if and only if it completes
\* successfully: the step that returns the order leaves the owner's cart empty,
\* and every other step of createOrder, a failing one included, leaves every
\* cart row as it is.
C2_CartDeletedIffSuccess ==
    [][\A p \in Procs :
          CreateOrder(p)
          => IF pc'[p] = "idle" /\ resp'.ok
             THEN {c \in cartItems' : c.user_id = local[p].user_id} = {}
             ELSE cartItems' = cartItems]_vars

\* a createOrder has returned an order of two lines and the owner's cart is empty
C2_Witness ==
    /\ resp.op = "createOrder" /\ resp.ok
    /\ Cardinality(ItemsOf(resp.order.id)) = 2
    /\ CartOf(1) = {}

\* C3: the total_amount of the order createOrder inserts is the exact sum of
\* quantity * unit price over the cart lines, at the catalog prices in effect
\* when the cart was read; the successful call returns that amount.
C3_TotalIsSumOfLines ==
    [][\A p \in Procs :
          /\ \A u \in UserIds :
                (CreateOrderRead(p, u) /\ pc'[p] = "co_insertOrder")
                => SnapshotCents(local'[p].cartItems) = CartCents(CartOf(u))
          /\ (CreateOrderInsertOrder(p) /\ pc'[p] = "co_insertItems")
                => \E o \in orders' \ orders :
                      /\ o.id = local'[p].order
                      /\ o.total_amount = SnapshotCents(local[p].cartItems)
          /\ (CreateOrderDeleteCart(p) /\ resp'.ok)
                => resp'.order.total_amount
                      = ParseFloat(SnapshotCents(local[p].cartItems))]_vars

\* an order of two lines was inserted at the prices read, and the catalog price
\* of product 1 has changed since the read
C3_Witness ==
    \E o \in orders :
        /\ pc[1] = "co_insertItems" /\ local[1].order = o.id
        /\ Len(local[1].cartItems) = 2
        /\ \E i \in 1..2 :
              /\ local[1].cartItems[i].product.id = 1
              /\ local[1].cartItems[i].product.price # products[1].price
        /\ o.total_amount = SnapshotCents(local[1].cartItems)

\* C4: createOrder for an owner whose cart has no line is rejected (with
\* 'Cart is empty' unless the cart read itself failed), and the rejected call
\* inserts no order and no order item and changes no cart row.
C4_EmptyCartRejected ==
    [][\A p \in Procs, u \in UserIds :
          (CreateOrderRead(p, u) /\ CartOf(u) = {})
          => /\ pc'[p] = "idle"
             /\ resp' \in {Throw("createOrder", "Cart is empty"),
                           Throw("createOrder", DbFault)}
             /\ orders' = orders
             /\ orderItems' = orderItems
             /\ cartItems' = cartItems]_vars

\* createOrder was rejected with 'Cart is empty' and the ledger is empty
C4_Witness ==
    /\ resp = Throw("createOrder", "Cart is empty")
    /\ CartOf(1) = {}
    /\ orders = {} /\ orderItems = {}

\* the lines read (or the rows inserted) with a product, quantity and unit price
LinesLike(cart, pr, q, price) ==
    {i \in DOMAIN cart : /\ cart[i].product.id = pr
                         /\ cart[i].quantity = q
                         /\ cart[i].product.price = price}

\* C5: createOrder inserts exactly one order-item row per cart row read (rows
\* of the same product are not merged), each of the new order, with the cart
\* row's product_id and quantity, the product's price at the cart read as
\* unit_price, and total_price = quantity * unit_price.
C5_OneItemPerCartRow ==
    [][\A p \in Procs :
          (CreateOrderInsertItems(p) /\ pc'[p] = "co_deleteCart")
          => LET inserted == orderItems' \ orderItems
             IN  /\ orderItems \subseteq orderItems'
                 /\ Cardinality(inserted) = Len(local[p].cartItems)
                 /\ \A it \in inserted :
                       /\ it.order_id = local[p].order
                       /\ it.total_price = it.quantity * it.unit_price
                 /\ \A pr \in ProductIds, q \in Quantities, price \in Prices :
                       Cardinality({it \in inserted : /\ it.product_id = pr
                                                      /\ it.quantity = q
                                                      /\ it.unit_price = price})
                       = Cardinality(LinesLike(local[p].cartItems, pr, q, price))]_vars

\* an order holds two separate items of the same product
C5_Witness ==
    \E a \in orderItems, b \in orderItems :
        /\ a.id # b.id
        /\ a.order_id = b.order_id
        /\ a.product_id = b.product_id
        /\ pc[1] = "co_deleteCart" /\ local[1].order = a.order_id

\* C6: in every state in which no createOrder is in flight, the total_amount of
\* every order equals the sum of total_price over the order-item rows that
\* reference it.
C6_TotalEqualsItemSum ==
    (\A p \in Procs : pc[p] = "idle")
    => \A o \in orders : o.total_amount = ItemCents(ItemsOf(o.id))

\* what getOrder and getUserOrders report of the items of an order
ReportedItems(id) ==
    {<<it.id, it.quantity, it.unit_price, it.total_price>>
        : it \in UNION ({g.items : g \in GetOrder(id)}
                        \cup {g.items : g \in {h \in GetUserOrders(1) : h.id = id}})}

\* C7: no operation removes or changes a persisted order-item row, and the
\* unit_price, quantity and total_price that getOrder and getUserOrders report
\* for the items of an order are the same after every operation, a change of
\* the product's price included.
C7_OrderItemsImmutable ==
    [][/\ orderItems \subseteq orderItems'
       /\ \A it \in orderItems, n \in orderItems' : n.id = it.id => n = it
       /\ \A o \in orders : ReportedItems(o.id) \subseteq ReportedItems(o.id)']_vars

\* getOrder reports an item at the unit price of its order although the
\* product's price is another one now
C7_Witness ==
    \E o \in orders : \E g \in GetOrder(o.id) : \E it \in g.items :
        /\ it.unit_price = ParseFloat(250)
        /\ it.product.price = ParseFloat(1299)
        /\ it.total_price = it.quantity * it.unit_price

\* C8: after a failed createOrder, the same call made again (nothing else in
\* between) ends with exactly one order, which has its order items, and an
\* empty cart.
C8_RetryLeavesOneOrder ==
    (resp.op = "createOrder" /\ resp.ok)
    => /\ Cardinality(orders) = 1
       /\ \A o \in orders : ItemsOf(o.id) # {}
       /\ CartOf(1) = {}

(***************************************************************************)
(* Properties of the order status.                                         *)
(***************************************************************************)
\* C9: the order row createOrder inserts has status 'pending', and so has the
\* order a successful createOrder returns, whatever the cart and whatever the
\* statuses of the orders that exist already.
C9_CreatedPending ==
    [][\A p \in Procs :
          /\ (CreateOrderInsertOrder(p) /\ pc'[p] = "co_insertItems")
                => /\ Cardinality(orders' \ orders) = 1
                   /\ \A o \in orders' \ orders : o.status = "pending"
          /\ (CreateOrderDeleteCart(p) /\ resp'.ok)
                => resp'.order.status = "pending"]_vars

\* an order is inserted as pending while the owner has a delivered order
C9_Witness ==
    \E a \in orders, b \in orders :
        /\ a.id # b.id /\ a.user_id = b.user_id
        /\ a.status = "delivered"
        /\ b.status = "pending"
        /\ pc[1] = "co_insertItems" /\ local[1].order = b.id

\* the transitions of the order life cycle
AllowedTransitions ==
    {<<"pending", "confirmed">>, <<"confirmed", "preparing">>,
     <<"preparing", "out_for_delivery">>, <<"out_for_delivery", "delivered">>,
     <<"pending", "cancelled">>, <<"confirmed", "cancelled">>}

C11_CreateOrderFrame ==
    [][\A p \in Procs :
          CreateOrder(p)
          => /\ cartItems' \subseteq cartItems
             /\ \A c \in cartItems \ cartItems' : c.user_id = local[p].user_id
             /\ orders \subseteq orders'
             /\ \A o \in orders' \ orders :
                   o.id = local'[p].order /\ o.user_id = local[p].user_id
             /\ orderItems \subseteq orderItems'
             /\ \A it \in orderItems' \ orderItems : it.order_id = local[p].order
             /\ deliveries' = deliveries
             /\ products' = products
             /\ users' = users]_vars

\* createOrder of user 1 has succeeded while user 2 has a cart row, a confirmed
\* order with its items and a delivery
C11_Witness ==
    /\ resp.op = "createOrder" /\ resp.ok
    /\ \E o \in orders : o.id = resp.order.id /\ o.user_id = 1
    /\ CartOf(1) = {} /\ CartOf(2) # {}
    /\ \E o \in orders :
          /\ o.user_id = 2 /\ o.status = "confirmed"
          /\ ItemsOf(o.id) # {}
          /\ \E d \in deliveries : d.order_id = o.id

RECURSIVE TrimStart(_)
\* a text without its leading whitespace
TrimStart(text) ==
    IF text # <<>> /\ Head(text) = " " THEN TrimStart(Tail(text)) ELSE text

RECURSIVE TrimEnd(_)
\* a text without its trailing whitespace
TrimEnd(text) ==
    IF text # <<>> /\ text[Len(text)] = " "
    THEN TrimEnd(SubSeq(text, 1, Len(text) - 1))
    ELSE text

Trim(text) == TrimEnd(TrimStart(text))

\* C12: a createOrder request whose delivery_address or delivery_phone is empty
\* after trimming whitespace is rejected before any read or write: the request
\* ends with an error at once, and no order, order item or cart row changes.
C12_BlankInputRejected ==
    [][\A p \in Procs, input \in CreateOrderInputs :
          (/\ CreateOrderRequest(p, input)
           /\ \/ Trim(input.delivery_address) = <<>>
              \/ Trim(input.delivery_phone) = <<>>)
          => /\ pc'[p] = "idle"
             /\ ~resp'.ok
             /\ orders' = orders
             /\ orderItems' = orderItems
             /\ cartItems' = cartItems]_vars

\* C13: createOrder for a user_id that references no user is rejected with an
\* error at its first step and writes nothing; no order and no order item of a
\* user that does not exist is ever stored.
C13_UnknownUserRejected ==
    /\ [][\A p \in Procs, u \in UserIds :
             (CreateOrderRead(p, u) /\ u \notin users)
             => /\ pc'[p] = "idle"
                /\ resp'.op = "createOrder" /\ ~resp'.ok
                /\ orders' = orders
                /\ orderItems' = orderItems
                /\ cartItems' = cartItems]_vars
    /\ [](\A o \in orders : o.user_id \in users)
    /\ [](\A it \in orderItems : \E o \in orders : o.id = it.order_id)

\* createOrder for user 2, who does not exist, was rejected while user 1 has a
\* cart, and nothing was stored
C13_Witness ==
    /\ 2 \notin users
    /\ resp = Throw("createOrder", "Cart is empty")
    /\ CartOf(1) # {}
    /\ orders = {} /\ orderItems = {}

\* the statement a createOrder request executes after each statement
StatementAfter ==
    {<<"idle", "co_insertOrder">>, <<"co_insertOrder", "co_insertItems">>,
     <<"co_insertItems", "co_deleteCart">>}

\* C14: a step of createOrder either completes its statement and goes on to the
\* next one, or ends the call; the call ends with a success result only at the
\* last statement, with the order, one order item per line read and an empty
\* cart in the database; it ends with an error in every other case, and no
\* statement is executed a second time.
C14_FailuresPropagate ==
    [][\A p \in Procs :
          CreateOrder(p)
          => IF pc'[p] # "idle"
             THEN /\ <<pc[p], pc'[p]>> \in StatementAfter
                  /\ resp' = resp
             ELSE /\ resp'.op = "createOrder"
                  /\ resp'.ok
                     => /\ pc[p] = "co_deleteCart"
                        /\ \E o \in orders' : o.id = local[p].order
                        /\ Cardinality({it \in orderItems' : it.order_id = local[p].order})
                              = Len(local[p].cartItems)
                        /\ {c \in cartItems' : c.user_id = local[p].user_id} = {}
                  /\ ~resp'.ok
                     => /\ resp'.err \in {DbFault, "Cart is empty"}
                        /\ cartItems' = cartItems
                        /\ orders' = orders
                        /\ orderItems' = orderItems]_vars

\* the order-items insert has failed after the order insert, and the call has
\* ended with the error of the database
C14_Witness ==
    /\ resp = Throw("createOrder", DbFault)
    /\ pc[1] = "idle"
    /\ \E o \in orders : ItemsOf(o.id) = {}
    /\ CartOf(1) # {}

(***************************************************************************)
(* Overlapping requests.                                                   *)
(***************************************************************************)
\* the lines of an order: product, quantity, unit price and total of each item
OrderLines(id) ==
    {<<it.product_id, it.quantity, it.unit_price, it.total_price>> : it \in ItemsOf(id)}

\* C15: nothing keeps a second createOrder of the same owner from going on
\* after the first one: a request that has read a cart can always insert its
\* order, then its items, then delete the cart and succeed, whatever the other
\* request does; and when two requests that read the same cart have both
\* inserted their items, there are two orders with the same lines.
C15_DoubleSubmitSucceeds ==
    /\ [](\A p \in Procs :
             /\ pc[p] = "co_insertOrder"
                => ENABLED (CreateOrderInsertOrder(p) /\ pc'[p] = "co_insertItems")
             /\ pc[p] = "co_insertItems"
                => ENABLED (CreateOrderInsertItems(p) /\ pc'[p] = "co_deleteCart")
             /\ pc[p] = "co_deleteCart"
                => ENABLED (CreateOrderDeleteCart(p) /\ resp'.ok))
    /\ [](\A p \in Procs, q \in Procs :
             (/\ p # q
              /\ pc[p] = "co_deleteCart" /\ pc[q] = "co_deleteCart"
              /\ local[p].user_id = local[q].user_id
              /\ local[p].cartItems = local[q].cartItems)
             => /\ local[p].order # local[q].order
                /\ \E a \in orders, b \in orders :
                      /\ a.id = local[p].order /\ b.id = local[q].order
                      /\ a.total_amount = b.total_amount
                /\ OrderLines(local[p].order) = OrderLines(local[q].order)
                /\ Cardinality(ItemsOf(local[p].order)) = Len(local[p].cartItems)
                /\ Cardinality(ItemsOf(local[q].order)) = Len(local[q].cartItems))

\* the first of two overlapping requests has returned its order and emptied the
\* cart; the second one read the same two lines, has inserted its own order
\* with the same lines and is about to return it
C15_Witness ==
    /\ resp.op = "createOrder" /\ resp.ok
    /\ pc[1] = "idle" /\ pc[2] = "co_deleteCart"
    /\ local[2].order # resp.order.id
    /\ Len(local[2].cartItems) = 2
    /\ OrderLines(local[2].order) = OrderLines(resp.order.id)
    /\ Cardinality(ItemsOf(resp.order.id)) = 2
    /\ Cardinality(ItemsOf(local[2].order)) = 2
    /\ Cardinality(orders) = 2
    /\ CartOf(1) = {}

\* C16: the statements of one createOrder call run in a fixed order.  The
\* order row is written only after the cart was read, with the total of the
\* lines read; order items are written only after their order row; cart rows
\* are deleted only after the order and all its items are written; and a
\* request waits for a statement only when the ones before it are done.
C16_StatementOrder ==
    /\ [][\A p \in Procs :
             CreateOrder(p)
             => /\ orders' # orders
                   => /\ pc[p] = "co_insertOrder"
                      /\ local[p].cartItems # <<>>
                      /\ \A o \in orders' \ orders :
                            o.total_amount = SnapshotCents(local[p].cartItems)
                      /\ orderItems' = orderItems /\ cartItems' = cartItems
                /\ orderItems' # orderItems
                   => /\ pc[p] = "co_insertItems"
                      /\ \E o \in orders : o.id = local[p].order
                      /\ orders' = orders /\ cartItems' = cartItems
                /\ cartItems' # cartItems
                   => /\ pc[p] = "co_deleteCart"
                      /\ \E o \in orders : o.id = local[p].order
                      /\ Cardinality(ItemsOf(local[p].order)) = Len(local[p].cartItems)
                      /\ orders' = orders /\ orderItems' = orderItems]_vars
    /\ [](\A p \in Procs :
             /\ pc[p] = "co_insertOrder"
                => local[p].cartItems # <<>> /\ local[p].order = 0
             /\ pc[p] = "co_insertItems"
                => /\ \E o \in orders : o.id = local[p].order
                   /\ ItemsOf(local[p].order) = {}
             /\ pc[p] = "co_deleteCart"
                => /\ \E o \in orders : o.id = local[p].order
                   /\ Cardinality(ItemsOf(local[p].order)) = Len(local[p].cartItems))

\* the order and both of its items are written and the cart rows are still
\* there: the cart delete is the statement that remains
C16_Witness ==
    /\ pc[1] = "co_deleteCart"
    /\ \E o \in orders : o.id = local[1].order
    /\ Cardinality(ItemsOf(local[1].order)) = 2
    /\ Cardinality(CartOf(1)) = 2

(***************************************************************************)
(* Properties of the cart.                                                 *)
(***************************************************************************)
\* C17: there is at most one cart row per (user_id, product_id) pair.
C17_OneRowPerUserProduct ==
    \A a \in cartItems, b \in cartItems :
        (a.user_id = b.user_id /\ a.product_id = b.product_id) => a.id = b.id

RECURSIVE SumQuantity(_)
\* the sum of the quantities of a set of cart rows
SumQuantity(rows) ==
    IF rows = {} THEN 0
    ELSE LET c == CHOOSE x \in rows : TRUE
         IN  c.quantity + SumQuantity(rows \ {c})

\* the quantity of a product in the cart of a user
QuantityInCart(u, pr) ==
    SumQuantity({c \in cartItems : c.user_id = u /\ c.product_id = pr})

\* C18: every addToCart call that completes raises the quantity of its product
\* in the cart of its user by exactly the quantity of its input, also when
\* another addToCart for the same user and product overlaps with it: no
\* quantity that was added is lost.
C18_AddToCartAccumulates ==
    [][\A p \in Procs :
          (AddToCartWrite(p) /\ resp'.ok)
          => SumQuantity({c \in cartItems' : /\ c.user_id = local[p].user_id
                                                /\ c.product_id = local[p].product_id})
                  = QuantityInCart(local[p].user_id, local[p].product_id)
                    + local[p].input_quantity]_vars

\* C19: addToCart for a user that does not exist, a product that does not
\* exist or a product whose is_available flag is false ends at once with an
\* error and leaves every cart row unchanged; a request goes on to its write
\* only for an existing user and a product that is available when it is
\* checked, and only the write of such a request inserts a cart row.
C19_AddToCartRejections ==
    /\ [][\A p \in Procs, u \in UserIds, pr \in ProductIds, q \in Quantities :
             AddToCartCheck(p, u, pr, q)
             => IF u \in users /\ pr \in DOMAIN products /\ products[pr].is_available
                THEN pc'[p] = "atc_write" /\ resp' = resp
                ELSE /\ pc'[p] = "idle"
                     /\ resp'.op = "addToCart" /\ ~resp'.ok
                     /\ resp'.err =
                           IF u \notin users
                           THEN "User with ID " \o ToString(u) \o " not found"
                           ELSE IF pr \notin DOMAIN products
                           THEN "Product with ID " \o ToString(pr) \o " not found"
                           ELSE "Product with ID " \o ToString(pr) \o " is not available"
                     /\ cartItems' = cartItems]_vars
    /\ [][\A c \in cartItems' \ cartItems :
             \/ \E old \in cartItems : old.id = c.id
             \/ \E p \in Procs :
                   /\ pc[p] = "atc_write" /\ pc'[p] = "idle"
                   /\ c.user_id = local[p].user_id /\ c.user_id \in users
                   /\ c.product_id = local[p].product_id
                   /\ c.product_id \in DOMAIN products]_vars

\* addToCart for product 1 was rejected because the product is off sale, and
\* the cart still holds the row that was added while it was on sale
C19_Witness ==
    /\ resp = Throw("addToCart", "Product with ID 1 is not available")
    /\ ~products[1].is_available
    /\ \E c \in cartItems : c.product_id = 1 /\ c.quantity = 1

\* C20: updateCartItem of an id that a cart row has sets the quantity of that
\* row and keeps its user_id and product_id, keeps every other cart row and
\* every other table as it was; for an id that no cart row has it fails with
\* "Cart item with id <id> not found" and changes no row.
C20_UpdateCartItemFrame ==
    [][\A id \in CartIds, q \in Quantities :
          UpdateCartItem(id, q)
          => /\ IF \E c \in cartItems : c.id = id
                THEN /\ resp'.ok
                     /\ \A c \in cartItems :
                           IF c.id = id
                           THEN [id |-> c.id, user_id |-> c.user_id,
                                 product_id |-> c.product_id, quantity |-> q]
                                    \in cartItems'
                           ELSE c \in cartItems'
                     /\ Cardinality(cartItems') = Cardinality(cartItems)
                ELSE /\ cartItems' = cartItems
                     /\ resp' = Throw("updateCartItem",
                                      "Cart item with id " \o ToString(id) \o " not found")
             /\ UNCHANGED <<users, products, orders, orderItems, deliveries>>]_vars

\* the quantity of cart row 2 was set to 2 while cart row 1 kept quantity 1
C20_Witness ==
    /\ resp = Return("updateCartItem", NoOrder)
    /\ \E a \in cartItems, b \in cartItems :
          /\ a.id = 1 /\ a.quantity = 1
          /\ b.id = 2 /\ b.quantity = 2

C22_ClearCartOnlyOwn ==
    [][\A u \in UserIds \cup {3} :
          ClearCart(u)
          => /\ cartItems' = {c \in cartItems : c.user_id # u}
             /\ resp' = Return("clearCart", NoOrder)
             /\ (u \notin users \/ CartOf(u) = {}) => cartItems' = cartItems
             /\ UNCHANGED <<users, products, orders, orderItems, deliveries>>]_vars

\* the cart of user 1 was cleared and the row of user 2 is still there
C22_Witness ==
    /\ resp = Return("clearCart", NoOrder)
    /\ CartOf(1) = {}
    /\ \E c \in cartItems : c.user_id = 2 /\ c.quantity = 2

(***************************************************************************)
(* Properties of the deliveries.                                           *)
(***************************************************************************)
\* C23: createDelivery for an order_id that no order has fails with "Order
\* with id <id> does not exist" and inserts nothing; for an existing order it
\* inserts one delivery of that order with status pending and NULL
\* actual_delivery_time and tracking_notes; every delivery row references an
\* existing order.
C23_DeliveryNeedsOrder ==
    /\ [][\A id \in OrderIds :
             CreateDelivery(id)
             => IF \E o \in orders : o.id = id
                THEN /\ resp'.ok
                     /\ \E d \in deliveries' :
                           /\ deliveries' \ deliveries = {d}
                           /\ d.order_id = id
                           /\ d.status = "pending"
                           /\ d.actual_delivery_time = Null
                           /\ d.tracking_notes = Null
                     /\ deliveries \subseteq deliveries'
                ELSE /\ deliveries' = deliveries
                     /\ resp' = Throw("createDelivery",
                           "Order with id " \o ToString(id) \o " does not exist")]_vars
    /\ [](\A d \in deliveries : \E o \in orders : o.id = d.order_id)

\* order 1 has a pending delivery and createDelivery for order 2, which does
\* not exist, was refused
C23_Witness ==
    /\ resp = Throw("createDelivery", "Order with id 2 does not exist")
    /\ \A o \in orders : o.id # 2
    /\ \E d \in deliveries : d.order_id = 1 /\ d.status = "pending"

\* C24: no order has more than one delivery row.
C24_OneDeliveryPerOrder ==
    \A a \in deliveries, b \in deliveries : a.order_id = b.order_id => a.id = b.id

\* the stages of a delivery, each with the stage that follows it
DeliveryStages ==
    {<<"pending", "assigned">>, <<"assigned", "picked_up">>,
     <<"picked_up", "in_transit">>, <<"in_transit", "delivered">>}

\* C25 (as claimed): the status of a delivery only ever changes from a stage to
\* the stage that follows it.
C25_OnlyForwardStages ==
    [][\A d \in deliveries, n \in deliveries' :
          (n.id = d.id /\ n.status # d.status)
          => <<d.status, n.status>> \in DeliveryStages]_vars

\* C25 (amended): the status of a delivery changes only in a successful step of
\* updateDelivery, and an updateDelivery that names a status of the enumeration
\* for an existing delivery succeeds and stores that status whatever the
\* delivery's current status; an update that names no status keeps the status.
C25_AnyDeliveryStatusAccepted ==
    /\ [][\A d \in deliveries, n \in deliveries' :
             (n.id = d.id /\ n.status # d.status)
             => resp' = Return("updateDelivery", NoOrder)]_vars
    /\ [][\A input \in TrackingInputs :
             (UpdateDelivery(input) /\ \E d \in deliveries : d.id = input.id)
             => /\ resp' = Return("updateDelivery", NoOrder)
                /\ \A d \in deliveries :
                      d.id = input.id
                      => \E n \in deliveries' :
                            /\ n.id = d.id
                            /\ n.status = IF input.status = Undefined
                                          THEN d.status ELSE input.status]_vars
    /\ [](\A d \in deliveries, s \in DeliveryStatuses :
             ENABLED (/\ UpdateDelivery([NoFields EXCEPT !.id = d.id, !.status = s])
                      /\ resp'.ok
                      /\ [d EXCEPT !.status = s] \in deliveries'))

\* a delivery is delivered, the last updateDelivery succeeded, and the same
\* delivery can be set back to pending next
C25_Witness ==
    \E d \in deliveries :
        /\ resp = Return("updateDelivery", NoOrder)
        /\ d.status = "delivered"
        /\ ENABLED (/\ UpdateDelivery([NoFields EXCEPT !.id = d.id, !.status = "pending"])
                    /\ [d EXCEPT !.status = "pending"] \in deliveries')

QueryOps ==
    {"getUser", "getProductsByCategory", "getUserCart", "getOrder", "getUserOrders",
     "getDeliveryByOrder"}

\* C28: a step that answers a query (the response is the query's and no
\* request in flight has moved) changes no row of any table and no serial; and
\* when a query is asked again with the same input and nothing was written
\* since its last answer, it returns the same rows.
C28_QueriesHaveNoEffect ==
    /\ [][(resp'.op \in QueryOps /\ pc' = pc)
          => UNCHANGED <<tables, serial, local>>]_vars
    /\ [][(/\ \A p \in Procs : pc[p] = "idle"
           /\ resp.op \in QueryOps
           /\ resp'.op = resp.op
           /\ resp'.input = resp.input)
          => resp'.rows = resp.rows]_vars

\* getUserCart has returned the cart row of user 1 with its product, no request
\* is in flight, and asking again gives the same answer
C28_Witness ==
    /\ resp.op = "getUserCart"
    /\ resp.input = 1
    /\ Len(resp.rows) = 1
    /\ \A p \in Procs : pc[p] = "idle"
    /\ ENABLED (GetUserCart(1) /\ resp' = resp)

(***************************************************************************)
(* createOrder against a cart that changes, and its result.                *)
(***************************************************************************)
\* C29: every cart row that the cart delete of createOrder removes is
\* represented, with the quantity it has when it is removed, by an order item
\* of the order that the call created, also when addToCart or updateCartItem
\* for the same owner runs between the cart read and the cart delete.
C29_DeletesOnlyOrderedLines ==
    [][\A p \in Procs :
          CreateOrderDeleteCart(p)
          => \A c \in cartItems \ cartItems' :
                \E it \in orderItems :
                   /\ it.order_id = local[p].order
                   /\ it.product_id = c.product_id
                   /\ it.quantity = c.quantity]_vars

\* C30: when createOrder succeeds, its result has as many items as cart rows
\* were read, and every item carries the product it refers to: the embedded
\* product has the item's product_id and the item's unit_price is that product's
\* price, whatever the size of the cart and the products in it.
C30_ResultItemsMatchProducts ==
    [][\A p \in Procs :
          (CreateOrderDeleteCart(p) /\ resp'.ok)
          => /\ Len(ResultItems(p)) = Len(local[p].cartItems)
             /\ \A index \in 1..Len(ResultItems(p)) :
                   /\ ResultItems(p)[index].product.id = ResultItems(p)[index].product_id
                   /\ ResultItems(p)[index].unit_price = ResultItems(p)[index].product.price
                   /\ ResultItems(p)[index].quantity = local[p].cartItems[index].quantity]_vars

\* createOrder has returned an order of two items of different products and
\* prices
C30_Witness ==
    /\ resp.op = "createOrder" /\ resp.ok
    /\ \E a \in ItemsOf(resp.order.id), b \in ItemsOf(resp.order.id) :
          /\ a.id < b.id
          /\ a.product_id # b.product_id
          /\ a.unit_price # b.unit_price
    /\ CartOf(1) = {}

=============================================================================
